---- MODULE Spec2Model ----
(***************************************************************************)
(* Model of main.py: a Flask front end that relays remote-control commands *)
(* to one Android TV over ADB.  The state is the process-wide dictionary   *)
(* tv_controller_cache, the TVController objects and their device handles, *)
(* the browser sessions (Flask session cookies), the allow-list read from  *)
(* the environment at import time, and the requests in flight.  A request  *)
(* is handled by a thread; the steps of a handler interleave with those of *)
(* other requests at every access to shared state and every transport call.*)
(***************************************************************************)
EXTENDS Integers, Sequences, FiniteSets, TLC

(* ------------------------------------------------------------------ *)
(* Bounds and input sets                                               *)
(* ------------------------------------------------------------------ *)

\* device handles one TVController object can obtain (successful connects)
MaxHandles == 2

\* request threads; MainThread alone serves requests that arrive one after the other
Reqs == {"r1", "r2"}
MainThread == "r1"

\* browser sessions (one Flask session cookie each)
Sessions == {"s1", "s2"}

\* the browser session whose requests the threads serve at the same time
SharedSession == "s1"

\* identities the identity provider can return; strings are character sequences
Identities ==
    { [sub |-> "u1", email |-> <<"a">>],
      [sub |-> "u2", email |-> <<"b">>] }

UserIds == { i.sub : i \in Identities }

\* no 'userinfo' in the token
NoUserInfo == [sub |-> "", email |-> <<>>]

\* the value of the ALLOWED_EMAILS environment variable; set = FALSE is unset
EnvValues ==
    { [set |-> FALSE, value |-> <<>>],
      [set |-> TRUE,  value |-> <<>>],
      [set |-> TRUE,  value |-> <<"a">>],
      [set |-> TRUE,  value |-> <<"a", ",", "b">>] }

\* the pool of TVController object identities; 0 is None
ControllerIds == 1..(Cardinality(UserIds) + Cardinality(Reqs))

\* direction values a client can send
DirectionInputs == {"up", "down", "left", "right", "ok", "back", "home", "diagonal", "UP"}

\* package names a client can send
PackageInputs == {"com.tv.app"}

\* JSON bodies: json = FALSE is get_json() returning None; data is the object's items
NoJson == [json |-> FALSE, data |-> {}]

Bodies ==
    { NoJson, [json |-> TRUE, data |-> {}], [json |-> TRUE, data |-> {<<"other", "x">>}] }
    \cup { [json |-> TRUE, data |-> {<<"direction", d>>}] : d \in DirectionInputs }
    \cup { [json |-> TRUE, data |-> {<<"package_name", p>>}] : p \in PackageInputs }

\* outcomes of client.connect followed by get_serial_no
ConnectOutcomes == {"ok", "no_serial", "raise"}

\* outcomes of device.shell
ShellOutcomes == {"ok", "raise"}

(* ------------------------------------------------------------------ *)
(* Python helpers                                                      *)
(* ------------------------------------------------------------------ *)

\* os.getenv(name, default)
getenv(e, default) == IF e.set THEN e.value ELSE default

\* str.split(sep) on a character sequence
RECURSIVE split(_, _)
split(s, sep) ==
    IF \E i \in 1..Len(s) : s[i] = sep
    THEN LET i == CHOOSE j \in 1..Len(s) : s[j] = sep /\ \A k \in 1..(j - 1) : s[k] # sep
         IN  <<SubSeq(s, 1, i - 1)>> \o split(SubSeq(s, i + 1, Len(s)), sep)
    ELSE <<s>>

\* truth value of a list
truthy(list) == Len(list) > 0

\* x in list
in_list(x, list) == \E i \in 1..Len(list) : list[i] = x

\* key in dict, dict[key] on a dict given by its items
has_key(data, key) == \E p \in data : p[1] = key
dict_get(data, key) == (CHOOSE p \in data : p[1] = key)[2]

\* dict[key] = value: the items of the dict afterwards
dict_set_append(data, key, value) == data \cup {<<key, value>>}
dict_set(data, key, value) == {p \in data : p[1] # key} \cup {<<key, value>>}

(* ------------------------------------------------------------------ *)
(* Program constants                                                   *)
(* ------------------------------------------------------------------ *)

KEYCODE_POWER == 26
KEYCODE_VOLUME_UP == 24
KEYCODE_VOLUME_DOWN == 25
KEYCODE_MUTE == 164
KEYCODE_DPAD_UP == 19
KEYCODE_DPAD_DOWN == 20
KEYCODE_DPAD_LEFT == 21
KEYCODE_DPAD_RIGHT == 22
KEYCODE_DPAD_CENTER == 23
KEYCODE_BACK == 4
KEYCODE_HOME == 3

keycode_map ==
    [d \in {"up", "down", "left", "right", "ok", "back", "home"} |->
        CASE d = "up"    -> KEYCODE_DPAD_UP
          [] d = "down"  -> KEYCODE_DPAD_DOWN
          [] d = "left"  -> KEYCODE_DPAD_LEFT
          [] d = "right" -> KEYCODE_DPAD_RIGHT
          [] d = "ok"    -> KEYCODE_DPAD_CENTER
          [] d = "back"  -> KEYCODE_BACK
          [] d = "home"  -> KEYCODE_HOME]

valid_directions == <<"up", "down", "left", "right", "ok", "back", "home">>

KeyRoutes == {"power", "volume_up", "volume_down", "volume_mute"}
CommandRoutes == KeyRoutes \cup {"launch_app", "navigate"}

\* the instruction a controller method hands to device.shell
PROBE == <<"echo test">>
keyevent(keycode) == <<"input keyevent ", keycode>>
monkey(package_name) == <<"monkey -p ", package_name, " -c android.intent.category.LAUNCHER 1">>

\* TVController.navigate: the keycode sent, 0 when the direction is rejected
TVController_navigate(direction) ==
    IF direction \notin DOMAIN keycode_map THEN 0 ELSE keycode_map[direction]

\* variant: mute sends the volume-down code
Instruction_mute_mixed_up(route, arg) ==
    CASE route = "power"       -> keyevent(KEYCODE_POWER)
      [] route = "volume_up"   -> keyevent(KEYCODE_VOLUME_UP)
      [] route = "volume_down" -> keyevent(KEYCODE_VOLUME_DOWN)
      [] route = "volume_mute" -> keyevent(KEYCODE_VOLUME_DOWN)
      [] route = "navigate"    -> keyevent(TVController_navigate(arg))
      [] route = "launch_app"  -> monkey(arg)

\* the instruction of the controller method a route calls
Instruction(route, arg) ==
    CASE route = "power"       -> keyevent(KEYCODE_POWER)
      [] route = "volume_up"   -> keyevent(KEYCODE_VOLUME_UP)
      [] route = "volume_down" -> keyevent(KEYCODE_VOLUME_DOWN)
      [] route = "volume_mute" -> keyevent(KEYCODE_MUTE)
      [] route = "navigate"    -> keyevent(TVController_navigate(arg))
      [] route = "launch_app"  -> monkey(arg)

\* the message of a route's success response
SuccessMessage(route, arg) ==
    CASE route = "power"       -> <<"Power command sent successfully">>
      [] route = "volume_up"   -> <<"Volume up command sent successfully">>
      [] route = "volume_down" -> <<"Volume down command sent successfully">>
      [] route = "volume_mute" -> <<"Mute command sent successfully">>
      [] route = "navigate"    -> <<"Navigate ", arg, " command sent successfully">>
      [] route = "launch_app"  -> <<"App ", arg, " launched successfully">>

\* the message of a route's response when the controller method returned False
FailureMessage(route, arg) ==
    CASE route = "power"       -> <<"Failed to send power command">>
      [] route = "volume_up"   -> <<"Failed to send volume up command">>
      [] route = "volume_down" -> <<"Failed to send volume down command">>
      [] route = "volume_mute" -> <<"Failed to send mute command">>
      [] route = "navigate"    -> <<"Failed to send navigate ", arg, " command">>
      [] route = "launch_app"  -> <<"Failed to launch app ", arg>>

Response(code, status, message) == [code |-> code, status |-> status, message |-> message]
NoResponse == Response(0, "", <<>>)
ConnectFailed == Response(500, "error", <<"Failed to connect to Android TV">>)

\* request.path of a route, as its segments
RoutePath(route) ==
    CASE route = "power"       -> <<"api", "tv", "power">>
      [] route = "volume_up"   -> <<"api", "tv", "volume", "up">>
      [] route = "volume_down" -> <<"api", "tv", "volume", "down">>
      [] route = "volume_mute" -> <<"api", "tv", "volume", "mute">>
      [] route = "launch_app"  -> <<"api", "tv", "app", "launch">>
      [] route = "navigate"    -> <<"api", "tv", "navigate">>
      [] route = "callback"    -> <<"auth", "callback">>
      [] route = "logout"      -> <<"auth", "logout">>

\* request.path.startswith('/api/')
startswith_api(path) == Len(path) > 1 /\ path[1] = "api"

\* the unauthorized handler of the login manager
unauthorized(path) ==
    IF startswith_api(path)
    THEN Response(401, "error", <<"Authentication required">>)
    ELSE Response(302, "", <<"redirect", "auth.login">>)

(* ------------------------------------------------------------------ *)
(* State                                                               *)
(* ------------------------------------------------------------------ *)

VARIABLES
    environ,              \* the ALLOWED_EMAILS environment variable
    ALLOWED_EMAILS,       \* Config.ALLOWED_EMAILS, computed at import
    session,              \* per browser session: flask-login's user id and session['user_info']
    last_callback,        \* per browser session: how its latest decisive login callback ended
    tv_controller_cache,  \* the items (user id, controller) of the dictionary
    device,               \* per TVController object: self.device, 0 is None
    req                   \* per request thread: the request it handles and its position

vars == <<environ, ALLOWED_EMAILS, session, last_callback, tv_controller_cache, device, req>>

AnonymousSession == [user_id |-> "", user_info |-> NoUserInfo]

IdleReq ==
    [pc |-> "idle", route |-> "", sess |-> "", who |-> NoUserInfo, arg |-> "",
     user_id |-> "", controller |-> 0, cached |-> FALSE, calls |-> <<>>,
     resp |-> NoResponse]

\* the user loader: the id of the User it builds, "" for None
load_user(sess) ==
    IF sess.user_id # "" /\ sess.user_info # NoUserInfo THEN sess.user_info.sub ELSE ""

\* current_user.is_authenticated for a request of browser session s
is_authenticated(s) == load_user(session[s]) # ""

\* controller objects some variable still refers to
Referenced(cache, rq) ==
    { p[2] : p \in cache } \cup { rq[r].controller : r \in Reqs }

\* self.device of every object no variable refers to any more is gone with it
Sweep(dev, cache, rq) ==
    [c \in ControllerIds |-> IF c \in Referenced(cache, rq) THEN dev[c] ELSE 0]

\* TVController(host, port): a new object, its device is None
NewController == CHOOSE c \in ControllerIds :
    /\ c \notin Referenced(tv_controller_cache, req)
    /\ \A d \in ControllerIds : d < c => d \in Referenced(tv_controller_cache, req)

\* one transport call, as the request made it
Call(op, instr, outcome, c, handle) ==
    [op |-> op, instr |-> instr, ok |-> (outcome = "ok"), outcome |-> outcome,
     controller |-> c, handle |-> handle]

Init ==
    /\ environ \in EnvValues
    /\ ALLOWED_EMAILS = split(getenv(environ, <<>>), ",")
    /\ session = [s \in Sessions |-> AnonymousSession]
    /\ last_callback = [s \in Sessions |-> "none"]
    /\ tv_controller_cache = {}
    /\ device = [c \in ControllerIds |-> 0]
    /\ req = [r \in Reqs |-> IdleReq]

(* ------------------------------------------------------------------ *)
(* Requests: arrival                                                   *)
(* ------------------------------------------------------------------ *)

\* thread r is free to take a request
Free(r) == req[r].pc = "idle"

\* thread r takes a request and leaves it in the state rec
Arrive(r, rec) ==
    /\ Free(r)
    /\ req' = [req EXCEPT ![r] = rec]
    /\ device' = Sweep(device, tv_controller_cache, req')
    /\ UNCHANGED <<environ, ALLOWED_EMAILS, tv_controller_cache>>

\* the request is answered at once
Answered(s, route, who, arg, resp) ==
    [IdleReq EXCEPT !.pc = "done", !.route = route, !.sess = s, !.who = who,
                    !.arg = arg, !.user_id = load_user(session[s]), !.resp = resp]

\* the route body goes on to get_tv_controller()
Dispatched(s, route, arg) ==
    [IdleReq EXCEPT !.pc = "gtc_check", !.route = route, !.arg = arg,
                    !.user_id = load_user(session[s])]

\* variant: the route is not protected
login_required_missing(s, route, body_result) == body_result

\* @login_required in front of a route of the API
login_required(s, route, body_result) ==
    IF ~is_authenticated(s)
    THEN Answered(s, route, NoUserInfo, "", unauthorized(RoutePath(route)))
    ELSE body_result

power(r, s) ==
    /\ Arrive(r, login_required(s, "power", Dispatched(s, "power", "")))
    /\ UNCHANGED <<session, last_callback>>

volume_up(r, s) ==
    /\ Arrive(r, login_required(s, "volume_up", Dispatched(s, "volume_up", "")))
    /\ UNCHANGED <<session, last_callback>>

volume_down(r, s) ==
    /\ Arrive(r, login_required(s, "volume_down", Dispatched(s, "volume_down", "")))
    /\ UNCHANGED <<session, last_callback>>

volume_mute(r, s) ==
    /\ Arrive(r, login_required(s, "volume_mute", Dispatched(s, "volume_mute", "")))
    /\ UNCHANGED <<session, last_callback>>

\* variant: the body is not validated before the controller is fetched
launch_app_body_unvalidated(s, body) ==
    IF ~body.json \/ body.data = {} \/ ~has_key(body.data, "package_name")
    THEN Dispatched(s, "launch_app", "")
    ELSE Dispatched(s, "launch_app", dict_get(body.data, "package_name"))

launch_app_body(s, body) ==
    IF ~body.json \/ body.data = {} \/ ~has_key(body.data, "package_name")
    THEN Answered(s, "launch_app", NoUserInfo, "",
                  Response(400, "error", <<"Missing package_name parameter">>))
    ELSE Dispatched(s, "launch_app", dict_get(body.data, "package_name"))

launch_app(r, s, body) ==
    /\ Arrive(r, login_required(s, "launch_app", launch_app_body(s, body)))
    /\ UNCHANGED <<session, last_callback>>

\* variant: the direction is not validated by the route
navigate_body_unvalidated(s, body) ==
    IF ~body.json \/ body.data = {} \/ ~has_key(body.data, "direction")
    THEN Answered(s, "navigate", NoUserInfo, "",
                  Response(400, "error", <<"Missing direction parameter">>))
    ELSE Dispatched(s, "navigate", dict_get(body.data, "direction"))

navigate_body(s, body) ==
    IF ~body.json \/ body.data = {} \/ ~has_key(body.data, "direction")
    THEN Answered(s, "navigate", NoUserInfo, "",
                  Response(400, "error", <<"Missing direction parameter">>))
    ELSE LET direction == dict_get(body.data, "direction") IN
         IF ~in_list(direction, valid_directions)
         THEN Answered(s, "navigate", NoUserInfo, direction,
                       Response(400, "error",
                                <<"Invalid direction. Must be one of: ",
                                  "up, down, left, right, ok, back, home">>))
         ELSE Dispatched(s, "navigate", direction)

navigate(r, s, body) ==
    /\ Arrive(r, login_required(s, "navigate", navigate_body(s, body)))
    /\ UNCHANGED <<session, last_callback>>

(* ------------------------------------------------------------------ *)
(* Authentication routes                                               *)
(* ------------------------------------------------------------------ *)

\* the allow-list test of the callback
rejected_email(user_info) ==
    truthy(ALLOWED_EMAILS) /\ ~in_list(user_info.email, ALLOWED_EMAILS)

\* variant: the session is written before the allow-list is tested
callback_session_first(r, s, user_info) ==
    IF user_info = NoUserInfo
    THEN /\ Arrive(r, Answered(s, "callback", user_info, "",
                               Response(400, "error", <<"Failed to get user info">>)))
         /\ UNCHANGED <<session, last_callback>>
    ELSE IF rejected_email(user_info)
    THEN /\ Arrive(r, Answered(s, "callback", user_info, "",
                               Response(403, "error", <<"Unauthorized email address">>)))
         /\ last_callback' = [last_callback EXCEPT ![s] =
                IF is_authenticated(s) THEN "rejected_user" ELSE "rejected_anonymous"]
         /\ session' = [session EXCEPT ![s] =
                [user_id |-> user_info.sub, user_info |-> user_info]]
    ELSE /\ Arrive(r, Answered(s, "callback", user_info, "",
                               Response(302, "", <<"redirect", "/">>)))
         /\ session' = [session EXCEPT ![s] =
                [user_id |-> user_info.sub, user_info |-> user_info]]
         /\ last_callback' = [last_callback EXCEPT ![s] = "logged_in"]

\* /auth/callback with the userinfo of the token (NoUserInfo: none)
callback(r, s, user_info) ==
    IF user_info = NoUserInfo
    THEN /\ Arrive(r, Answered(s, "callback", user_info, "",
                               Response(400, "error", <<"Failed to get user info">>)))
         /\ UNCHANGED <<session, last_callback>>
    ELSE IF rejected_email(user_info)
    THEN /\ Arrive(r, Answered(s, "callback", user_info, "",
                               Response(403, "error", <<"Unauthorized email address">>)))
         /\ last_callback' = [last_callback EXCEPT ![s] =
                IF is_authenticated(s) THEN "rejected_user" ELSE "rejected_anonymous"]
         /\ UNCHANGED session
    ELSE /\ Arrive(r, Answered(s, "callback", user_info, "",
                               Response(302, "", <<"redirect", "/">>)))
         /\ session' = [session EXCEPT ![s] =
                [user_id |-> user_info.sub, user_info |-> user_info]]
         /\ last_callback' = [last_callback EXCEPT ![s] = "logged_in"]

\* variant: logout also drops the cache entry of the user
logout_evicts(r, s) ==
    IF ~is_authenticated(s)
    THEN /\ Arrive(r, Answered(s, "logout", NoUserInfo, "", unauthorized(RoutePath("logout"))))
         /\ UNCHANGED <<session, last_callback>>
    ELSE /\ Free(r)
         /\ req' = [req EXCEPT ![r] =
                Answered(s, "logout", NoUserInfo, "",
                         Response(200, "success", <<"Logged out successfully">>))]
         /\ tv_controller_cache' =
                {p \in tv_controller_cache : p[1] # load_user(session[s])}
         /\ device' = Sweep(device, tv_controller_cache', req')
         /\ session' = [session EXCEPT ![s] = AnonymousSession]
         /\ UNCHANGED <<environ, ALLOWED_EMAILS, last_callback>>

\* variant: logout answers but leaves the session logged in
logout_keeps_session(r, s) ==
    IF ~is_authenticated(s)
    THEN /\ Arrive(r, Answered(s, "logout", NoUserInfo, "", unauthorized(RoutePath("logout"))))
         /\ UNCHANGED <<session, last_callback>>
    ELSE /\ Arrive(r, Answered(s, "logout", NoUserInfo, "",
                               Response(200, "success", <<"Logged out successfully">>)))
         /\ UNCHANGED <<session, last_callback>>

\* /auth/logout
logout(r, s) ==
    IF ~is_authenticated(s)
    THEN /\ Arrive(r, Answered(s, "logout", NoUserInfo, "", unauthorized(RoutePath("logout"))))
         /\ UNCHANGED <<session, last_callback>>
    ELSE /\ Arrive(r, Answered(s, "logout", NoUserInfo, "",
                               Response(200, "success", <<"Logged out successfully">>)))
         /\ session' = [session EXCEPT ![s] = AnonymousSession]
         /\ UNCHANGED last_callback

(* ------------------------------------------------------------------ *)
(* Requests: get_tv_controller and the controller methods              *)
(* ------------------------------------------------------------------ *)

\* TVController.connect on object c: self.device afterwards
connect_resets(c, outcome) == IF outcome = "ok" THEN device[c] + 1 ELSE 0
connect(c, outcome) == IF outcome = "ok" THEN device[c] + 1 ELSE device[c]

\* a connect can hand out a new handle only while the object has handles left
CanConnect(c, outcome) == outcome = "ok" => device[c] < MaxHandles

\* thread r moves on; objects it no longer refers to are gone
Step(r, rec, dev, cache) ==
    /\ req' = [req EXCEPT ![r] = rec]
    /\ tv_controller_cache' = cache
    /\ device' = Sweep(dev, cache, req')
    /\ UNCHANGED <<environ, ALLOWED_EMAILS, session, last_callback>>

\* the 500 response of a route whose controller method returned False
Failed(rq) == Response(500, "error", FailureMessage(rq.route, rq.arg))

\* get_tv_controller: 'if user_id not in tv_controller_cache', and the new TVController
get_tv_controller_lookup(r) ==
    /\ req[r].pc = "gtc_check"
    /\ IF has_key(tv_controller_cache, req[r].user_id)
       THEN Step(r, [req[r] EXCEPT !.pc = "gtc_return", !.cached = TRUE],
                 device, tv_controller_cache)
       ELSE Step(r, [req[r] EXCEPT !.pc = "gtc_connect", !.controller = NewController],
                 device, tv_controller_cache)

\* variant: the controller is stored whatever connect returned
get_tv_controller_connect_unchecked(r, outcome) ==
    /\ req[r].pc = "gtc_connect"
    /\ LET c    == req[r].controller
           dev  == [device EXCEPT ![c] = connect(c, outcome)]
           call == Call("connect", <<>>, outcome, c, dev[c])
       IN  /\ CanConnect(c, outcome)
           /\ Step(r, [req[r] EXCEPT !.pc = "gtc_store", !.calls = @ \o <<call>>],
                   dev, tv_controller_cache)

\* get_tv_controller: 'if controller.connect()'
get_tv_controller_connect(r, outcome) ==
    /\ req[r].pc = "gtc_connect"
    /\ LET c    == req[r].controller
           dev  == [device EXCEPT ![c] = connect(c, outcome)]
           call == Call("connect", <<>>, outcome, c, dev[c])
       IN  /\ CanConnect(c, outcome)
           /\ IF outcome = "ok"
              THEN Step(r, [req[r] EXCEPT !.pc = "gtc_store", !.calls = @ \o <<call>>],
                        dev, tv_controller_cache)
              ELSE Step(r, [req[r] EXCEPT !.pc = "done", !.controller = 0,
                                          !.calls = @ \o <<call>>, !.resp = ConnectFailed],
                        dev, tv_controller_cache)

\* get_tv_controller: 'tv_controller_cache[user_id] = controller'
get_tv_controller_store(r) ==
    /\ req[r].pc = "gtc_store"
    /\ Step(r, [req[r] EXCEPT !.pc = "gtc_return"], device,
            dict_set(tv_controller_cache, req[r].user_id, req[r].controller))

\* get_tv_controller: 'return tv_controller_cache[user_id]', then the route calls
\* the controller method, which for navigate looks the direction up first
get_tv_controller_return(r) ==
    /\ req[r].pc = "gtc_return"
    /\ LET c == dict_get(tv_controller_cache, req[r].user_id) IN
       IF req[r].route = "navigate" /\ TVController_navigate(req[r].arg) = 0
       THEN Step(r, [req[r] EXCEPT !.pc = "done", !.controller = c, !.resp = Failed(req[r])],
                 device, tv_controller_cache)
       ELSE Step(r, [req[r] EXCEPT !.pc = "probe", !.controller = c],
                 device, tv_controller_cache)

\* variant: the exception of the probe is not caught and leaves the handler
ensure_connected_uncaught(r, outcome) ==
    /\ req[r].pc = "probe"
    /\ LET c    == req[r].controller
           call == Call("shell", PROBE, outcome, c, device[c])
       IN  IF device[c] # 0
           THEN IF outcome = "ok"
                THEN Step(r, [req[r] EXCEPT !.pc = "write", !.calls = @ \o <<call>>],
                          device, tv_controller_cache)
                ELSE Step(r, [req[r] EXCEPT !.pc = "done", !.calls = @ \o <<call>>,
                                 !.resp = Response(500, "", <<"Internal Server Error">>)],
                          device, tv_controller_cache)
           ELSE /\ outcome = "ok"
                /\ Step(r, [req[r] EXCEPT !.pc = "reconnect"], device, tv_controller_cache)

\* ensure_connected: the probe when self.device is set
ensure_connected(r, outcome) ==
    /\ req[r].pc = "probe"
    /\ LET c    == req[r].controller
           call == Call("shell", PROBE, outcome, c, device[c])
       IN  IF device[c] # 0
           THEN IF outcome = "ok"
                THEN Step(r, [req[r] EXCEPT !.pc = "write", !.calls = @ \o <<call>>],
                          device, tv_controller_cache)
                ELSE Step(r, [req[r] EXCEPT !.pc = "reconnect", !.calls = @ \o <<call>>],
                          device, tv_controller_cache)
           ELSE /\ outcome = "ok"
                /\ Step(r, [req[r] EXCEPT !.pc = "reconnect"], device, tv_controller_cache)

\* variant: a failed reconnect is tried again
reconnect_retries(r, outcome) ==
    /\ req[r].pc = "reconnect"
    /\ LET c    == req[r].controller
           dev  == [device EXCEPT ![c] = connect(c, outcome)]
           call == Call("connect", <<>>, outcome, c, dev[c])
       IN  /\ CanConnect(c, outcome)
           /\ IF outcome = "ok"
              THEN Step(r, [req[r] EXCEPT !.pc = "write", !.calls = @ \o <<call>>],
                        dev, tv_controller_cache)
              ELSE IF Len(req[r].calls) < 3
              THEN Step(r, [req[r] EXCEPT !.calls = @ \o <<call>>], dev, tv_controller_cache)
              ELSE Step(r, [req[r] EXCEPT !.pc = "done", !.calls = @ \o <<call>>,
                                          !.resp = Failed(req[r])],
                        dev, tv_controller_cache)

\* variant: the result of the reconnect is ignored
reconnect_ignored(r, outcome) ==
    /\ req[r].pc = "reconnect"
    /\ LET c    == req[r].controller
           dev  == [device EXCEPT ![c] = connect(c, outcome)]
           call == Call("connect", <<>>, outcome, c, dev[c])
       IN  /\ CanConnect(c, outcome)
           /\ Step(r, [req[r] EXCEPT !.pc = "write", !.calls = @ \o <<call>>],
                   dev, tv_controller_cache)

\* ensure_connected: 'return self.connect()'
reconnect(r, outcome) ==
    /\ req[r].pc = "reconnect"
    /\ LET c    == req[r].controller
           dev  == [device EXCEPT ![c] = connect(c, outcome)]
           call == Call("connect", <<>>, outcome, c, dev[c])
       IN  /\ CanConnect(c, outcome)
           /\ IF outcome = "ok"
              THEN Step(r, [req[r] EXCEPT !.pc = "write", !.calls = @ \o <<call>>],
                        dev, tv_controller_cache)
              ELSE Step(r, [req[r] EXCEPT !.pc = "done", !.calls = @ \o <<call>>,
                                          !.resp = Failed(req[r])],
                        dev, tv_controller_cache)

\* variant: the route answers success whatever device.shell did
send_instruction_unchecked(r, outcome) ==
    /\ req[r].pc = "write"
    /\ LET c    == req[r].controller
           call == Call("shell", Instruction(req[r].route, req[r].arg), outcome, c, device[c])
       IN  Step(r, [req[r] EXCEPT !.pc = "done", !.calls = @ \o <<call>>,
                       !.resp = Response(200, "success",
                                         SuccessMessage(req[r].route, req[r].arg))],
                device, tv_controller_cache)

\* variant: the method does not return True after the write
send_instruction_no_return(r, outcome) ==
    /\ req[r].pc = "write"
    /\ LET c    == req[r].controller
           call == Call("shell", Instruction(req[r].route, req[r].arg), outcome, c, device[c])
       IN  Step(r, [req[r] EXCEPT !.pc = "done", !.calls = @ \o <<call>>,
                                  !.resp = Failed(req[r])],
                device, tv_controller_cache)

\* send_keyevent and launch_app: the instruction, and the route's response
send_instruction(r, outcome) ==
    /\ req[r].pc = "write"
    /\ LET c    == req[r].controller
           call == Call("shell", Instruction(req[r].route, req[r].arg), outcome, c, device[c])
       IN  IF outcome = "ok"
           THEN Step(r, [req[r] EXCEPT !.pc = "done", !.calls = @ \o <<call>>,
                            !.resp = Response(200, "success",
                                              SuccessMessage(req[r].route, req[r].arg))],
                     device, tv_controller_cache)
           ELSE Step(r, [req[r] EXCEPT !.pc = "done", !.calls = @ \o <<call>>,
                                       !.resp = Failed(req[r])],
                     device, tv_controller_cache)

\* the handler returns its response and the thread is free again
respond(r) ==
    /\ req[r].pc = "done"
    /\ Step(r, IdleReq, device, tv_controller_cache)

(* ------------------------------------------------------------------ *)
(* Specifications                                                      *)
(* ------------------------------------------------------------------ *)

\* every route, requests arriving one after the other
Next ==
    \/ \E s \in Sessions : power(MainThread, s)
    \/ \E s \in Sessions : volume_up(MainThread, s)
    \/ \E s \in Sessions : volume_down(MainThread, s)
    \/ \E s \in Sessions : volume_mute(MainThread, s)
    \/ \E s \in Sessions, body \in Bodies : launch_app(MainThread, s, body)
    \/ \E s \in Sessions, body \in Bodies : navigate(MainThread, s, body)
    \/ \E s \in Sessions, u \in Identities \cup {NoUserInfo} : callback(MainThread, s, u)
    \/ \E s \in Sessions : logout(MainThread, s)
    \/ get_tv_controller_lookup(MainThread)
    \/ \E o \in ConnectOutcomes : get_tv_controller_connect(MainThread, o)
    \/ get_tv_controller_store(MainThread)
    \/ get_tv_controller_return(MainThread)
    \/ \E o \in ShellOutcomes : ensure_connected(MainThread, o)
    \/ \E o \in ConnectOutcomes : reconnect(MainThread, o)
    \/ \E o \in ShellOutcomes : send_instruction(MainThread, o)
    \/ respond(MainThread)

Spec == Init /\ [][Next]_vars

\* power requests of one browser session, handled by threads that run at the same time
NextThreads ==
    \/ \E r \in Reqs : power(r, SharedSession)
    \/ \E r \in Reqs, u \in Identities : callback(r, SharedSession, u)
    \/ \E r \in Reqs : logout(r, SharedSession)
    \/ \E r \in Reqs : get_tv_controller_lookup(r)
    \/ \E r \in Reqs, o \in ConnectOutcomes : get_tv_controller_connect(r, o)
    \/ \E r \in Reqs : get_tv_controller_store(r)
    \/ \E r \in Reqs : get_tv_controller_return(r)
    \/ \E r \in Reqs, o \in ShellOutcomes : ensure_connected(r, o)
    \/ \E r \in Reqs, o \in ConnectOutcomes : reconnect(r, o)
    \/ \E r \in Reqs, o \in ShellOutcomes : send_instruction(r, o)
    \/ \E r \in Reqs : respond(r)

SpecThreads == Init /\ [][NextThreads]_vars

(* ------------------------------------------------------------------ *)
(* Properties                                                          *)
(* ------------------------------------------------------------------ *)

\* the positions of a request's transport calls, by kind
ConnectCalls(calls) == {i \in 1..Len(calls) : calls[i].op = "connect"}
ProbeCalls(calls) == {i \in 1..Len(calls) : calls[i].op = "shell" /\ calls[i].instr = PROBE}
CommandCalls(calls) == {i \in 1..Len(calls) : calls[i].op = "shell" /\ calls[i].instr # PROBE}
ConnectsBefore(calls, i) == Cardinality({j \in ConnectCalls(calls) : j < i})

\* a request of a command route that got past login_required and validation
Dispatch(rq) == rq.route \in CommandRoutes /\ rq.user_id # "" /\ rq.resp.code \notin {400, 401}

\* C1 as stated: a command of a user with no cache entry makes exactly one connect
\* attempt before its command instruction is written, whatever the probe's outcome.
C1_ExactlyOneConnect ==
    \A r \in Reqs :
        Dispatch(req[r]) /\ ~req[r].cached =>
            \A i \in CommandCalls(req[r].calls) : ConnectsBefore(req[r].calls, i) = 1

\* C1 amended: a command of a user with no cache entry starts with the connect of
\* get_tv_controller; before its command instruction is written it has made exactly
\* one connect attempt when the probe succeeded and exactly two (the fresh connect and
\* one reconnect) when the probe failed; it never makes more than two.
C1_OneConnectThenAtMostOneReconnect ==
    \A r \in Reqs :
        LET calls == req[r].calls IN
        Dispatch(req[r]) /\ ~req[r].cached /\ calls # <<>> =>
            /\ calls[1].op = "connect"
            /\ Cardinality(ConnectCalls(calls)) <= 2
            /\ \A i \in CommandCalls(calls) :
                  /\ calls[1].ok
                  /\ 2 \in ProbeCalls(calls)
                  /\ ConnectsBefore(calls, i) = IF calls[2].ok THEN 1 ELSE 2

\* C1 witness: a user without cache entry, the probe after the fresh connect failed,
\* the reconnect succeeded and the command instruction was written
C1_Witness ==
    \E r \in Reqs :
        /\ req[r].pc = "done" /\ Dispatch(req[r]) /\ ~req[r].cached
        /\ Len(req[r].calls) = 4
        /\ ~req[r].calls[2].ok
        /\ 4 \in CommandCalls(req[r].calls)

\* C2: a request of a cached user whose probe failed makes exactly one reconnect; when
\* it succeeded the command instruction is written next, when it failed the request
\* ends in failure with no further connect and no command instruction.
C2_OneReconnect ==
    \A r \in Reqs :
        LET calls == req[r].calls IN
        Dispatch(req[r]) /\ req[r].cached /\ calls # <<>> =>
            /\ ProbeCalls(calls) = {1}
            /\ calls[1].ok => ConnectCalls(calls) = {}
            /\ ~calls[1].ok =>
                  /\ ConnectCalls(calls) \subseteq {2}
                  /\ req[r].pc \in {"write", "done"} => ConnectCalls(calls) = {2}
                  /\ req[r].pc = "done" /\ calls[2].ok =>
                        Len(calls) = 3 /\ CommandCalls(calls) = {3}
                  /\ req[r].pc = "done" /\ ~calls[2].ok =>
                        /\ Len(calls) = 2 /\ CommandCalls(calls) = {}
                        /\ req[r].resp.code = 500 /\ req[r].resp.status = "error"

\* C2 witness: a cached user, the probe failed and the single reconnect failed
C2_Witness ==
    \E r \in Reqs :
        /\ req[r].pc = "done" /\ Dispatch(req[r]) /\ req[r].cached
        /\ Len(req[r].calls) = 2 /\ ~req[r].calls[1].ok /\ ~req[r].calls[2].ok

\* the requests of the command routes that are answered
Answer(rq) == rq.pc = "done" /\ rq.route \in CommandRoutes

Accepted(calls) == {i \in CommandCalls(calls) : calls[i].ok}

\* C3 amended, the counts: leaving the probe out, a request that ends in success had
\* exactly one command instruction accepted by device.shell, after exactly one probe
\* call, and a request that ends in failure had none accepted.
C3_Counts ==
    \A r \in Reqs :
        LET calls == req[r].calls IN
        Answer(req[r]) =>
            IF req[r].resp.status = "success"
            THEN /\ Cardinality(Accepted(calls)) = 1
                 /\ Cardinality(CommandCalls(calls)) = 1
                 /\ Cardinality(ProbeCalls(calls)) = 1
                 /\ calls[Len(calls)].instr = Instruction(req[r].route, req[r].arg)
            ELSE /\ Accepted(calls) = {}
                 /\ Cardinality(CommandCalls(calls)) <= 1

ArrivesCommand(r, s) ==
    \/ power(r, s)
    \/ volume_up(r, s)
    \/ volume_down(r, s)
    \/ volume_mute(r, s)
    \/ \E body \in Bodies : launch_app(r, s, body)
    \/ \E body \in Bodies : navigate(r, s, body)

\* the request thread r has just taken is answered 401 and nothing else happened
Refused401(r) ==
    /\ req'[r].pc = "done"
    /\ req'[r].resp = Response(401, "error", <<"Authentication required">>)
    /\ req'[r].calls = <<>>
    /\ tv_controller_cache' = tv_controller_cache
    /\ device' = device

\* a callback request that was answered, for an identity outside a non-empty allow-list
RejectedCallback(rq) ==
    /\ rq.pc = "done" /\ rq.route = "callback" /\ rq.who \in Identities
    /\ Len(ALLOWED_EMAILS) > 0
    /\ \A i \in 1..Len(ALLOWED_EMAILS) : ALLOWED_EMAILS[i] # rq.who.email

\* C4 as stated: once a callback of a browser session was rejected, every later command
\* request of that session is answered 401 (until a callback succeeds).
C4_RejectedThenAlways401 ==
    [][\A r \in Reqs, s \in Sessions :
          last_callback[s] \in {"rejected_anonymous", "rejected_user"} /\ ArrivesCommand(r, s)
              => Refused401(r)]_vars

\* C4 amended: with a non-empty allow-list an identity whose email is not in it gets
\* 403 and the callback leaves the session's login state as it was; if the session was
\* not logged in when the callback ran, every later command request of the session is
\* answered 401 and reaches no connect or device instruction, until a callback succeeds.
C4_RejectedLeavesSessionAsItWas ==
    /\ [](\A r \in Reqs : RejectedCallback(req[r]) => req[r].resp.code = 403)
    /\ [][\A r \in Reqs : ~RejectedCallback(req[r]) /\ RejectedCallback(req'[r])
              => session' = session /\ tv_controller_cache' = tv_controller_cache]_vars
    /\ [][\A r \in Reqs, s \in Sessions :
              last_callback[s] = "rejected_anonymous" /\ ArrivesCommand(r, s)
                  => Refused401(r)]_vars

\* C4 witness: a command request answered 401 in a session whose callback was rejected
\* while it was not logged in
C4_Witness ==
    \E r \in Reqs :
        /\ req[r].pc = "done" /\ req[r].route \in CommandRoutes
        /\ req[r].resp.code = 401
        /\ last_callback[req[r].sess] = "rejected_anonymous"

\* C5 as stated: with ALLOWED_EMAILS unset or empty, every identity the identity
\* provider returns is logged in by the callback and none is rejected with 403.
C5_EmptyAllowsEveryone ==
    \A r \in Reqs :
        /\ req[r].pc = "done" /\ req[r].route = "callback" /\ req[r].who \in Identities
        /\ (~environ.set \/ environ.value = <<>>)
        => /\ req[r].resp.code = 302
           /\ load_user(session[req[r].sess]) = req[r].who.sub

\* every transport call of the request failed
AllFailed(calls) == calls # <<>> /\ \A i \in 1..Len(calls) : ~calls[i].ok

\* a power request answered while the device endpoint was unreachable
UnreachablePower(rq) ==
    rq.pc = "done" /\ rq.route = "power" /\ Dispatch(rq) /\ AllFailed(rq.calls)

\* C6 as stated: a power request made while the endpoint is unreachable is answered 500
\* with status error, and afterwards the cache has no entry for the user or an entry
\* whose controller has no device handle.
C6_NoValidEntry ==
    \A r \in Reqs :
        UnreachablePower(req[r]) =>
            /\ req[r].resp.code = 500 /\ req[r].resp.status = "error"
            /\ \/ ~has_key(tv_controller_cache, req[r].user_id)
               \/ device[dict_get(tv_controller_cache, req[r].user_id)] = 0

\* C6 amended: such a request is answered 500 with status error; a user who had no
\* cached controller has no entry afterwards, and a user who had one keeps the entry,
\* bound to the same controller, whose device handle is still the stale one the probe
\* was sent to (it is not reset to None).
C6_StaleEntryStays ==
    \A r \in Reqs :
        UnreachablePower(req[r]) =>
            /\ req[r].resp.code = 500 /\ req[r].resp.status = "error"
            /\ IF req[r].cached
               THEN /\ Len(req[r].calls) = 2
                    /\ has_key(tv_controller_cache, req[r].user_id)
                    /\ dict_get(tv_controller_cache, req[r].user_id) = req[r].controller
                    /\ device[req[r].controller] = req[r].calls[1].handle
                    /\ device[req[r].controller] # 0
               ELSE /\ Len(req[r].calls) = 1
                    /\ ~has_key(tv_controller_cache, req[r].user_id)

\* C6 witness: the user had a cached controller, its probe and the reconnect failed
C6_Witness ==
    \E r \in Reqs : UnreachablePower(req[r]) /\ req[r].cached

\* the directions of the claim
ClaimDirections == {"up", "down", "left", "right", "ok", "back", "home"}

\* the request thread r has just taken is answered 400 and nothing else happened
Refused400(r, message) ==
    /\ req'[r].pc = "done"
    /\ req'[r].resp = Response(400, "error", message)
    /\ req'[r].calls = <<>>
    /\ tv_controller_cache' = tv_controller_cache
    /\ device' = device

\* C7: a navigate request of a logged-in session with a direction outside the seven is
\* answered 400 with no connect, probe or instruction and the cache unchanged;
\* TVController.navigate itself rejects such a direction, and no request with such a
\* direction ever gets a controller.
C7_InvalidDirectionNeverReachesTransport ==
    /\ [][\A r \in Reqs, s \in Sessions, body \in Bodies :
              /\ is_authenticated(s)
              /\ \E p \in body.data : p[1] = "direction" /\ p[2] \notin ClaimDirections
              /\ navigate(r, s, body)
              => /\ req'[r].resp.code = 400 /\ req'[r].resp.status = "error"
                 /\ req'[r].pc = "done" /\ req'[r].calls = <<>>
                 /\ tv_controller_cache' = tv_controller_cache
                 /\ device' = device]_vars
    /\ [](\A r \in Reqs :
              req[r].route = "navigate" /\ req[r].arg \notin ClaimDirections =>
                  /\ req[r].pc = "done" /\ req[r].calls = <<>> /\ req[r].controller = 0
                  /\ TVController_navigate(req[r].arg) = 0)

\* C7 witness: an answered navigate request with the direction "diagonal"
C7_Witness ==
    \E r \in Reqs :
        /\ req[r].pc = "done" /\ req[r].route = "navigate" /\ req[r].arg = "diagonal"
        /\ req[r].resp.code = 400

C9_UnauthenticatedRefused ==
    /\ [][\A r \in Reqs, s \in Sessions :
              ~is_authenticated(s) /\ ArrivesCommand(r, s) => Refused401(r)]_vars
    /\ [][\A r \in Reqs, s \in Sessions :
              ~is_authenticated(s) /\ logout(r, s)
                  => /\ req'[r].resp = Response(302, "", <<"redirect", "auth.login">>)
                     /\ session' = session]_vars
    /\ [](\A r \in Reqs : req[r].user_id = "" => req[r].pc \in {"idle", "done"})

\* C9 witness: a power request answered 401
C9_Witness ==
    \E r \in Reqs :
        /\ req[r].pc = "done" /\ req[r].route = "power" /\ req[r].resp.code = 401
        /\ ~is_authenticated(req[r].sess)

\* C10: whatever the interleaving, the cache never holds more than one entry per user
\* id, and a request's controller that is not the cached one of its user was replaced
\* in the cache by that of another request of the same user.
C10_OneEntryPerUser ==
    /\ \A p \in tv_controller_cache, q \in tv_controller_cache : p[1] = q[1] => p = q
    /\ \A r \in Reqs :
          req[r].pc \in {"probe", "reconnect", "write", "done"} /\ req[r].controller # 0
              => \E p \in tv_controller_cache : p[1] = req[r].user_id

\* C10 witness: two requests of one user both found no entry, both connected, the
\* second store replaced the first, and the first request's command went through the
\* handle of the controller no cache entry refers to
C10_Witness ==
    \E r \in Reqs, q \in Reqs :
        /\ r # q /\ req[r].user_id = req[q].user_id
        /\ ~req[r].cached /\ ~req[q].cached
        /\ req[r].route = "power" /\ req[q].route = "power"
        /\ req[r].pc = "done" /\ req[r].resp.code = 200
        /\ req[q].pc \in {"gtc_return", "probe", "reconnect", "write", "done"}
        /\ req[q].calls # <<>> /\ req[q].calls[1].ok
        /\ req[r].controller # req[q].controller
        /\ <<req[q].user_id, req[q].controller>> \in tv_controller_cache
        /\ \A p \in tv_controller_cache : p[2] # req[r].controller
        /\ device[req[r].controller] # 0
        /\ LET last == req[r].calls[Len(req[r].calls)] IN
              /\ last.controller = req[r].controller /\ last.ok
              /\ last.instr = keyevent(KEYCODE_POWER)

ClaimCode(route, arg) ==
    CASE route = "power"       -> 26
      [] route = "volume_up"   -> 24
      [] route = "volume_down" -> 25
      [] route = "volume_mute" -> 164
      [] route = "navigate" /\ arg = "up"    -> 19
      [] route = "navigate" /\ arg = "down"  -> 20
      [] route = "navigate" /\ arg = "left"  -> 21
      [] route = "navigate" /\ arg = "right" -> 22
      [] route = "navigate" /\ arg = "ok"    -> 23
      [] route = "navigate" /\ arg = "back"  -> 4
      [] route = "navigate" /\ arg = "home"  -> 3
      [] OTHER -> -1

\* C12: every command instruction of a fixed command is 'input keyevent <code>' with
\* the code of the claim's table, and a request that ends in success has written that
\* instruction once and no other command instruction.
C12_KeyCodes ==
    \A r \in Reqs :
        LET rq == req[r]  calls == req[r].calls IN
        rq.route \in KeyRoutes \cup {"navigate"} =>
            /\ \A i \in CommandCalls(calls) :
                  calls[i].instr = <<"input keyevent ", ClaimCode(rq.route, rq.arg)>>
            /\ rq.pc = "done" /\ rq.resp.status = "success" =>
                  /\ Cardinality(CommandCalls(calls)) = 1
                  /\ calls[Len(calls)].ok
                  /\ calls[Len(calls)].instr =
                        <<"input keyevent ", ClaimCode(rq.route, rq.arg)>>

\* C12 witness: a successful mute request whose instruction is 'input keyevent 164'
C12_Witness ==
    \E r \in Reqs :
        /\ req[r].pc = "done" /\ req[r].route = "volume_mute"
        /\ req[r].resp.status = "success"
        /\ req[r].calls[Len(req[r].calls)].instr = <<"input keyevent ", 164>>

\* C13: the cache starts empty; with requests arriving one after the other no step
\* removes an entry or binds its user id to another controller object; the step of a
\* reconnect leaves the cache alone and changes the handle of its own controller only.
C13_EntriesPersist ==
    /\ tv_controller_cache = {}
    /\ [][tv_controller_cache \subseteq tv_controller_cache'
          /\ \A p \in tv_controller_cache' :
                has_key(tv_controller_cache, p[1]) => p \in tv_controller_cache]_vars
    /\ [][\A r \in Reqs :
              req[r].pc = "reconnect" /\ req'[r].pc # "reconnect" =>
                  /\ tv_controller_cache' = tv_controller_cache
                  /\ \A c \in ControllerIds \ {req[r].controller} :
                        device'[c] = device[c]]_vars

\* C13 witness: a cached user's probe failed, the reconnect succeeded, and the entry
\* still names the same controller, which now has a new handle
C13_Witness ==
    \E r \in Reqs :
        /\ req[r].pc = "done" /\ Dispatch(req[r]) /\ req[r].cached
        /\ Len(req[r].calls) = 3 /\ req[r].calls[2].ok
        /\ <<req[r].user_id, req[r].controller>> \in tv_controller_cache
        /\ device[req[r].controller] = req[r].calls[2].handle
        /\ req[r].calls[2].handle # req[r].calls[1].handle

\* C14: a command route answers success (200) exactly when, in the same request, its
\* own instruction was handed to device.shell and the call returned without raising.
C14_SuccessIffWritten ==
    \A r \in Reqs :
        LET rq == req[r]  calls == req[r].calls IN
        rq.pc = "done" /\ rq.route \in CommandRoutes =>
            /\ (rq.resp.status = "success") = (rq.resp.code = 200)
            /\ (rq.resp.status = "success") =
                  (\E i \in 1..Len(calls) :
                      /\ calls[i].op = "shell" /\ calls[i].ok
                      /\ calls[i].instr = Instruction(rq.route, rq.arg)
                      /\ calls[i].controller = rq.controller)

\* C14 witness: a launch request answered success after its monkey instruction
C14_Witness ==
    \E r \in Reqs :
        /\ req[r].pc = "done" /\ req[r].route = "launch_app"
        /\ req[r].resp.status = "success"
        /\ req[r].calls[Len(req[r].calls)].instr = monkey("com.tv.app")

\* C15: every controller in the cache has a device handle; no step takes the handle of
\* a cached controller away, a failed reconnect leaves every handle as it was, and a
\* request of a cached user starts its transport calls with the probe.
C15_CachedControllersHaveHandle ==
    /\ [](\A p \in tv_controller_cache : device[p[2]] # 0)
    /\ [](\A r \in Reqs :
              /\ req[r].pc = "probe" => device[req[r].controller] # 0
              /\ req[r].cached /\ req[r].calls # <<>> =>
                    /\ req[r].calls[1].op = "shell" /\ req[r].calls[1].instr = PROBE
                    /\ req[r].calls[1].handle # 0)
    /\ [][\A p \in tv_controller_cache :
              p \in tv_controller_cache' => device'[p[2]] >= device[p[2]]]_vars
    /\ [][\A r \in Reqs :
              req[r].pc = "reconnect" /\ req'[r].pc = "done" => device' = device]_vars

\* C15 witness: a cached user's probe and reconnect failed and the controller in the
\* cache still has the handle the probe was sent to
C15_Witness ==
    \E r \in Reqs :
        /\ req[r].pc = "done" /\ req[r].route = "volume_up" /\ req[r].cached
        /\ Len(req[r].calls) = 2 /\ ~req[r].calls[2].ok
        /\ <<req[r].user_id, req[r].controller>> \in tv_controller_cache
        /\ device[req[r].controller] = req[r].calls[1].handle
        /\ device[req[r].controller] # 0

\* C16: logout of a logged-in session leaves it not logged in and the cache as it was;
\* a session becomes logged in only by a callback that succeeds; a command request of
\* a session that is not logged in is answered 401 with no connect or instruction; and
\* a request whose user has an entry uses the controller of that entry.
C16_LogoutUntilLogin ==
    /\ [][\A r \in Reqs, s \in Sessions :
              is_authenticated(s) /\ logout(r, s) =>
                  /\ session'[s] = AnonymousSession
                  /\ tv_controller_cache' = tv_controller_cache
                  /\ req'[r].resp.code = 200]_vars
    /\ [][\A s \in Sessions :
              session[s] = AnonymousSession /\ session'[s] # AnonymousSession =>
                  \E r \in Reqs :
                      /\ req'[r].pc = "done" /\ req'[r].route = "callback"
                      /\ req'[r].sess = s /\ req'[r].resp.code = 302
                      /\ req[r].pc = "idle"]_vars
    /\ [][\A r \in Reqs, s \in Sessions :
              session[s] = AnonymousSession /\ ArrivesCommand(r, s) =>
                  /\ req'[r].resp.code = 401 /\ req'[r].pc = "done"
                  /\ req'[r].calls = <<>> /\ req'[r].controller = 0
                  /\ tv_controller_cache' = tv_controller_cache]_vars
    /\ [][\A r \in Reqs :
              req[r].pc = "gtc_check" /\ has_key(tv_controller_cache, req[r].user_id) =>
                  /\ req'[r].cached /\ req'[r].pc = "gtc_return"
                  /\ tv_controller_cache' = tv_controller_cache]_vars
    /\ [](\A r \in Reqs :
              req[r].cached /\ req[r].pc \in {"probe", "reconnect", "write", "done"} =>
                  <<req[r].user_id, req[r].controller>> \in tv_controller_cache)

\* C16 witness: the session's last callback logged it in, it has logged out since, a
\* command request of it was answered 401, and the cache still holds an entry
C16_Witness ==
    \E r \in Reqs :
        /\ req[r].pc = "done" /\ req[r].route \in CommandRoutes
        /\ req[r].resp.code = 401
        /\ last_callback[req[r].sess] = "logged_in"
        /\ session[req[r].sess] = AnonymousSession
        /\ tv_controller_cache # {}

====
